---- MODULE Spec2Model ----
(***************************************************************************)
(* Midea M-Thermal Arctic R290 Modbus utilities.                           *)
(*                                                                         *)
(* The scripts are modelled as state machines over one Modbus TCP session  *)
(* with the heat pump (unit 2 behind the EW11-A gateway):                  *)
(*   set_target.py      read-modify-write of register 2 (Zone1 low byte,   *)
(*                      Zone2 high byte)                                   *)
(*   scan_registers.py  bulk reads of 0..22 and 100..199, single reads of  *)
(*                      200..290, then the report                          *)
(*   test_write.py      reads of nine registers, writes to 16, 1 and 0,    *)
(*                      the nine reads again                               *)
(*   test_modbus.py     one read of register 110 from units 1, 2 and 3     *)
(* The transport (pymodbus) is the environment: every call answers with    *)
(* one of the outcomes of Outcomes, chosen nondeterministically.           *)
(***************************************************************************)
EXTENDS Integers, Sequences, FiniteSets, TLC

VARIABLES
    script,       \* which script this run executes
    pc,           \* position of the script
    idx,          \* scan: index of the bulk block, then the parameter address
    arg,          \* sys.argv[1] of set_target: [ok, tenths]
    target,       \* set_target: int(float(sys.argv[1]))
    dev,          \* the device's holding registers that differ from DeviceImage
    session,      \* the TCP session: "closed", "up", "lost"
    connectOk,    \* client.connect() returned True
    closeCalls,   \* number of client.close() calls
    requests,     \* every read/write call issued on the client, in order
    failed,       \* scan: indices (into requests) of the reads that failed
    faults,       \* scan: number of failed calls so far
    result,       \* set_target: result.registers[0] of the read
    readOutcome,  \* set_target: outcome of the read of register 2
    writeOutcome, \* set_target: outcome of the write of register 2
    all_values,   \* scan: the result set, address -> raw value
    stdout,       \* messages printed
    report,       \* scan: the register lines printed, in order
    combined,     \* scan: the 32-bit combined lines printed, in order
    exitCode,     \* process exit status: -1 while running
    ctrlWrites    \* writes to register 2 by the wired controller so far

vars == <<script, pc, idx, arg, target, dev, session, connectOk, closeCalls,
          requests, failed, faults, result, readOutcome, writeOutcome,
          all_values, stdout, report, combined, exitCode, ctrlWrites>>

(***************************************************************************)
(* Bounds of the model.                                                    *)
(***************************************************************************)
\* failed transport calls allowed in one scan
MaxFaults == 1
\* writes to register 2 by the wired controller during one set_target run
MaxCtrlWrites == 1

(***************************************************************************)
(* Integer arithmetic of the scripts (Python ints are unbounded).          *)
(***************************************************************************)
RECURSIVE OrNat(_, _)
\* a | b for a, b >= 0
OrNat(a, b) ==
    IF a = 0 THEN b
    ELSE IF b = 0 THEN a
    ELSE (IF a % 2 = 1 \/ b % 2 = 1 THEN 1 ELSE 0) + 2 * OrNat(a \div 2, b \div 2)

RECURSIVE AndNat(_, _)
\* a & b for a, b >= 0
AndNat(a, b) ==
    IF a = 0 \/ b = 0 THEN 0
    ELSE (IF a % 2 = 1 /\ b % 2 = 1 THEN 1 ELSE 0) + 2 * AndNat(a \div 2, b \div 2)

RECURSIVE AndNotNat(_, _)
\* a & ~b for a, b >= 0
AndNotNat(a, b) ==
    IF a = 0 THEN 0
    ELSE (IF a % 2 = 1 /\ b % 2 = 0 THEN 1 ELSE 0) + 2 * AndNotNat(a \div 2, b \div 2)

\* a | b for a >= 0 and any int b: for b < 0, a | b = ~(~b & ~a)
PyOr(a, b) == IF b >= 0 THEN OrNat(a, b) ELSE -AndNotNat(-b - 1, a) - 1

RECURSIVE Pow2(_)
Pow2(n) == IF n = 0 THEN 1 ELSE 2 * Pow2(n - 1)

\* a >> n and a << n for a >= 0
Shr(a, n) == a \div Pow2(n)
Shl(a, n) == a * Pow2(n)

\* int(float(s)) for a decimal s given in tenths: truncation toward zero
IntOfFloat(tenths) == IF tenths >= 0 THEN tenths \div 10 ELSE -((-tenths) \div 10)

(***************************************************************************)
(* The device and the transport.                                           *)
(***************************************************************************)
\* a catalogue without entries for 200..208
REGISTERSWithGap == (0..22) \cup (100..199) \cup (209..290)

\* REGISTERS: the addresses that have a catalogue entry
REGISTERS == (0..22) \cup (100..199) \cup (200..290)

\* the holding registers the device implements
DeviceAddrs == (0..22) \cup (100..290)

UInt16 == 0..65535

\* the register image of the device the runs start from: every value is a
\* uint16, with 0xFFFF, 0 and 0xFF ("not available") at some addresses
DeviceImage ==
    [a \in DeviceAddrs |->
        IF a % 7 = 0 THEN 65535
        ELSE IF a % 11 = 0 THEN 0
        ELSE IF a % 13 = 0 THEN 255
        ELSE (a * 263 + 7) % 65536]

\* the value the device holds at address a
Reg(a) == IF a \in DOMAIN dev THEN dev[a] ELSE DeviceImage[a]

\* the registers after v is stored at address a
Stored(a, v) == [x \in (DOMAIN dev) \cup {a} |-> IF x = a THEN v ELSE dev[x]]

\* outcomes of one transport call: the reply, an error response (isError()),
\* a raised exception with the session kept (timeout), a raised exception
\* with the session lost
Outcomes == {"ok", "error", "exception", "lost"}

Raises(o) == o \in {"exception", "lost"}

SessionAfter(o) == IF o = "lost" THEN "lost" ELSE "up"

\* the call sent as a write of 0
ReadReqAsWrite(a, n) ==
    [op |-> "write", unit |-> 2, address |-> a, count |-> n, value |-> 0]

\* client.read_holding_registers(address=a, count=n, device_id=2)
ReadReq(a, n) ==
    [op |-> "read", unit |-> 2, address |-> a, count |-> n, value |-> 0]
\* client.write_register(address=a, value=v, device_id=2)
WriteReq(a, v) ==
    [op |-> "write", unit |-> 2, address |-> a, count |-> 1, value |-> v]

Writes == {i \in 1..Len(requests) : requests[i].op = "write"}
Reads == {i \in 1..Len(requests) : requests[i].op = "read"}

(***************************************************************************)
(* set_target.py                                                           *)
(***************************************************************************)
\* sys.argv[1] values tried: a decimal in tenths (every whole target of
\* 0..255, some with a fraction, some out of range), or text float() rejects
ArgSamples ==
    { [ok |-> TRUE, tenths |-> t] :
        t \in { 10 * T : T \in 0..255 }
              \cup {355, 2559, -5, -10, -2560, 2560, 3000, 700000} }
    \cup { [ok |-> FALSE, tenths |-> 0] }

\* raw values of register 2 tried: Zone2 high byte, Zone1 low byte
Reg2Samples ==
    { hi * 256 + lo : hi \in {0, 1, 30, 85, 127, 128, 170, 254, 255},
                      lo \in {0, 35, 255} }

\* Zone2 setpoints the wired controller may store meanwhile
CtrlZone2Samples == {0, 40, 255}

\* the low byte taken for Zone2
Zone2OfLow(raw) == AndNat(raw, 255)

\* line 25: zone2 = (result.registers[0] >> 8) & 0xFF
Zone2Of(raw) == AndNat(Shr(raw, 8), 255)

\* a write of the target alone, the value read ignored
ComposeNaive(raw, t) == t

\* lines 25-26: new_raw = (zone2 << 8) | target
Compose(raw, t) == PyOr(Shl(Zone2Of(raw), 8), t)

\* the read's reply not checked with isError()
AfterReadUnchecked(o) == IF Raises(o) THEN "done" ELSE "write"

\* line 24: the position after the read, by its outcome
AfterRead(o) ==
    IF o = "ok" THEN "write" ELSE IF o = "error" THEN "close" ELSE "done"

\* a call that raised ends the script with a traceback: nothing catches it
ExitAfter(o) == IF Raises(o) THEN 1 ELSE -1

InitCommon ==
    /\ idx = 0
    /\ target = 0
    /\ session = "closed"
    /\ connectOk = FALSE
    /\ closeCalls = 0
    /\ requests = <<>>
    /\ failed = {}
    /\ faults = 0
    /\ result = 0
    /\ readOutcome = "none"
    /\ writeOutcome = "none"
    /\ all_values = [a \in {} |-> 0]
    /\ stdout = <<>>
    /\ report = <<>>
    /\ combined = <<>>
    /\ exitCode = -1
    /\ ctrlWrites = 0

InitSetTarget ==
    /\ script = "set_target"
    /\ pc = "parse"
    /\ arg \in ArgSamples
    /\ \E r \in Reg2Samples : dev = [a \in {2} |-> r]
    /\ InitCommon

\* line 19: target = int(float(sys.argv[1]))
ParseArg ==
    /\ script = "set_target" /\ pc = "parse"
    /\ IF arg.ok
       THEN /\ target' = IntOfFloat(arg.tenths)
            /\ pc' = "connect"
            /\ exitCode' = exitCode
       ELSE /\ target' = target
            /\ pc' = "done"
            /\ exitCode' = 1
    /\ UNCHANGED <<script, idx, arg, dev, session, connectOk, closeCalls,
                   requests, failed, faults, result, readOutcome, writeOutcome,
                   all_values, stdout, report, combined, ctrlWrites>>

\* lines 20-21: client.connect(); no else branch
Connect ==
    /\ script = "set_target" /\ pc = "connect"
    /\ \E ok \in BOOLEAN :
        /\ connectOk' = ok
        /\ session' = IF ok THEN "up" ELSE "closed"
        /\ pc' = IF ok THEN "read" ELSE "done"
        /\ exitCode' = IF ok THEN exitCode ELSE 0
    /\ UNCHANGED <<script, idx, arg, target, dev, closeCalls, requests, failed,
                   faults, result, readOutcome, writeOutcome, all_values,
                   stdout, report, combined, ctrlWrites>>

\* lines 23-24: result = client.read_holding_registers(address=2, count=1)
ReadReg2 ==
    /\ script = "set_target" /\ pc = "read"
    /\ \E o \in Outcomes :
        /\ requests' = Append(requests, ReadReq(2, 1))
        /\ readOutcome' = o
        /\ result' = IF o = "ok" THEN Reg(2) ELSE result
        /\ session' = SessionAfter(o)
        /\ pc' = AfterRead(o)
        /\ exitCode' = ExitAfter(o)
    /\ UNCHANGED <<script, idx, arg, target, dev, connectOk, closeCalls, failed,
                   faults, writeOutcome, all_values, stdout, report, combined,
                   ctrlWrites>>

\* lines 25-27: client.write_register(address=2, value=new_raw); the reply is
\* not looked at. A value that is no uint16 cannot be encoded: the call raises
\* and nothing reaches the device.
WriteReg2 ==
    /\ script = "set_target" /\ pc = "write"
    /\ LET new_raw == Compose(result, target) IN
       \E o \in Outcomes :
        /\ new_raw \notin UInt16 => o = "exception"
        /\ requests' = Append(requests, WriteReq(2, new_raw))
        /\ writeOutcome' = o
        /\ dev' = IF o = "ok" THEN Stored(2, new_raw) ELSE dev
        /\ session' = SessionAfter(o)
        /\ pc' = IF Raises(o) THEN "done" ELSE "close"
        /\ exitCode' = ExitAfter(o)
    /\ UNCHANGED <<script, idx, arg, target, connectOk, closeCalls, failed,
                   faults, result, readOutcome, all_values, stdout, report,
                   combined, ctrlWrites>>

\* line 28: client.close(), then the script ends
Close ==
    /\ script = "set_target" /\ pc = "close"
    /\ closeCalls' = closeCalls + 1
    /\ session' = "closed"
    /\ pc' = "done"
    /\ exitCode' = 0
    /\ UNCHANGED <<script, idx, arg, target, dev, connectOk, requests, failed,
                   faults, result, readOutcome, writeOutcome, all_values,
                   stdout, report, combined, ctrlWrites>>

\* the wired controller stores a Zone2 setpoint in register 2 while the script
\* runs; the Zone1 byte is left as it is
ControllerWrite ==
    /\ script = "set_target" /\ pc \in {"connect", "read", "write", "close"}
    /\ ctrlWrites < MaxCtrlWrites
    /\ \E z \in CtrlZone2Samples :
        /\ z # Zone2Of(Reg(2))
        /\ dev' = Stored(2, z * 256 + (Reg(2) % 256))
    /\ ctrlWrites' = ctrlWrites + 1
    /\ UNCHANGED <<script, pc, idx, arg, target, session, connectOk, closeCalls,
                   requests, failed, faults, result, readOutcome, writeOutcome,
                   all_values, stdout, report, combined, exitCode>>

\* the runs that send the Zone1 setpoint the register already holds: every
\* pair of setpoints, from the point where register 2 has been read
InitCodec ==
    /\ script = "set_target"
    /\ pc = "write"
    /\ idx = 0
    /\ \E zone1 \in 0..255, zone2 \in 0..255 :
        /\ arg = [ok |-> TRUE, tenths |-> 10 * zone1]
        /\ target = zone1
        /\ dev = [a \in {2} |-> zone2 * 256 + zone1]
        /\ result = zone2 * 256 + zone1
    /\ session = "up"
    /\ connectOk = TRUE
    /\ closeCalls = 0
    /\ requests = <<ReadReq(2, 1)>>
    /\ failed = {}
    /\ faults = 0
    /\ readOutcome = "ok"
    /\ writeOutcome = "none"
    /\ all_values = [a \in {} |-> 0]
    /\ stdout = <<>>
    /\ report = <<>>
    /\ combined = <<>>
    /\ exitCode = -1
    /\ ctrlWrites = 0

NextCodec ==
    \/ WriteReg2
    \/ Close

SpecCodec == InitCodec /\ [][NextCodec]_vars

NextSetTarget ==
    \/ ParseArg
    \/ Connect
    \/ ReadReg2
    \/ WriteReg2
    \/ Close
    \/ ControllerWrite

SpecSetTarget == InitSetTarget /\ [][NextSetTarget]_vars

(***************************************************************************)
(* scan_registers.py                                                       *)
(***************************************************************************)
\* one bulk block that runs on through the parameter registers
BulkBlocksWide == << [start |-> 0, count |-> 23], [start |-> 100, count |-> 191] >>

\* line 844: the bulk blocks, (start, count)
BulkBlocks == << [start |-> 0, count |-> 23], [start |-> 100, count |-> 100] >>

\* line 855: param_addrs = list(range(200, 291))
param_addrs == [i \in 1..91 |-> 199 + i]

\* the addresses of a request
Range(start, count) == start..(start + count - 1)

\* lines 848-850 and 860: the registers of a good reply go into all_values
Store(vals, start, count) ==
    [a \in (DOMAIN vals) \cup Range(start, count) |->
        IF a \in Range(start, count) THEN Reg(a) ELSE vals[a]]

\* a failed read that leaves its addresses in the result set with value 0
ValuesAfterDefault(o, vals, start, count) ==
    IF o = "ok" THEN Store(vals, start, count)
    ELSE [a \in (DOMAIN vals) \cup Range(start, count) |->
             IF a \in Range(start, count) THEN 0 ELSE vals[a]]

\* lines 847-852 and 859-862: all_values after a read, by its outcome; a read
\* that failed leaves no entry
ValuesAfter(o, vals, start, count) ==
    IF o = "ok" THEN Store(vals, start, count) ELSE vals

\* REGISTERS, short_desc: the registers the catalogue marks as tenths
\* ("x0.1", "x10", "/10": 118, 133, 134, 192, 193, 194)
ScaleTenth == {118, 133, 134, 192, 193, 194}

\* REGISTERS, short_desc: the registers the catalogue marks "x0.01"
ScaleHundredth == {138, 140} \cup (143..146) \cup (148..186)

\* REGISTERS, detail: "Stored as 2's complement (65531 = -5C)"
SignedTemps == {216, 232, 233, 237, 267}

\* REGISTERS, detail: "65535 = sensor not available"
SentinelFFFF == {106, 191}

\* REGISTERS, detail: "Returns 255 if not installed", "255 = curve not active"
SentinelFF == {120, 121, 136, 137, 141}

\* str(val): the raw value alone
Plain(val) ==
    [kind |-> "plain", raw |-> val, div |-> 1, whole |-> val, frac |-> 0,
     unit |-> ""]

\* f"{val} ({val * 0.1:.1f} A)" and the like: the raw value, then the value
\* divided by d (10 or 100) with one or two decimals, and the unit; for a
\* uint16 the rounding of the float product gives val / d exactly
Scaled(val, d, unit) ==
    [kind |-> "scaled", raw |-> val, div |-> d, whole |-> val \div d,
     frac |-> val % d, unit |-> unit]

\* lines 810-828
format_value(addr, val) ==
    IF addr \in {118} THEN Scaled(val, 10, "A")
    ELSE IF addr \in {133} THEN Scaled(val, 10, "A")
    ELSE IF addr \in {134} THEN Scaled(val, 10, "V")
    ELSE IF addr \in {138} THEN Scaled(val, 100, "m3/h")
    ELSE IF addr \in {140, 148, 149, 150} THEN Scaled(val, 100, "kW")
    ELSE IF addr \in {143, 144, 145, 146, 152, 153, 154, 155, 156, 157, 158,
                      159, 160, 161, 162, 163} THEN Scaled(val, 100, "kWh")
    ELSE IF addr \in {151, 164} THEN Scaled(val, 100, "")
    ELSE IF addr \in {192} THEN Scaled(val, 10, "%")
    ELSE Plain(val)

\* the keys in descending order
SortedKeysDescending(S) == SelectSeq([i \in 1..291 |-> 291 - i], LAMBDA a : a \in S)

\* line 865: sorted(all_values.keys()); every key is an address in 0..290
SortedKeys(S) == SelectSeq([i \in 1..291 |-> i - 1], LAMBDA a : a \in S)

\* line 885: values of an uncatalogued register that are taken for noise
Noise(val) == val \in {0, 32767, 127, 65535, 255}

\* a line for every address read
PrintedAll(vals, a) == TRUE

\* lines 867 and 885: whether a line is printed for the address
Printed(vals, a) == a \in REGISTERS \/ ~Noise(vals[a])

\* lines 868-871 and 887: the line of one address
Line(vals, a) ==
    [addr |-> a, known |-> a \in REGISTERS, val |-> vals[a],
     formatted |-> IF a \in REGISTERS THEN format_value(a, vals[a])
                                      ELSE Plain(vals[a])]

\* lines 865-887: the register lines, in the order printed
ReportLines(vals) ==
    LET keys == SelectSeq(SortedKeys(DOMAIN vals), LAMBDA a : Printed(vals, a))
    IN  [i \in 1..Len(keys) |-> Line(vals, keys[i])]

\* the last pair with its low word among the parameter registers
pairsAcross ==
    << <<143, 144>>, <<145, 146>>, <<152, 153>>, <<154, 155>>,
       <<156, 157>>, <<158, 159>>, <<160, 161>>, <<199, 200>> >>

\* lines 893-902
pairs ==
    << <<143, 144>>, <<145, 146>>, <<152, 153>>, <<154, 155>>,
       <<156, 157>>, <<158, 159>>, <<160, 161>>, <<162, 163>> >>

\* the two words combined as if the high word counted 256
CombineBytes(high, low) ==
    [kwh |-> (high * 256 + low) \div 100, cents |-> (high * 256 + low) % 100]

\* lines 905-906: (high * 65536 + low) / 100 printed with two decimals, as
\* its whole kWh and its hundredths; high * 65536 = 100 * (high * 655) +
\* high * 36 keeps every intermediate value below 2^31
Combine(high, low) ==
    [kwh |-> high * 655 + (high * 36 + low) \div 100,
     cents |-> (high * 36 + low) % 100]

\* the combined lines with the two words of each pair exchanged
CombinedLinesSwapped(vals) ==
    LET have == SelectSeq(pairs, LAMBDA p : p[1] \in DOMAIN vals /\ p[2] \in DOMAIN vals)
    IN  [i \in 1..Len(have) |->
            [hi |-> have[i][1], lo |-> have[i][2],
             total |-> Combine(vals[have[i][2]], vals[have[i][1]])]]

\* lines 903-906: the combined lines
CombinedLines(vals) ==
    LET have == SelectSeq(pairs, LAMBDA p : p[1] \in DOMAIN vals /\ p[2] \in DOMAIN vals)
    IN  [i \in 1..Len(have) |->
            [hi |-> have[i][1], lo |-> have[i][2],
             total |-> Combine(vals[have[i][1]], vals[have[i][2]])]]

InitScan ==
    /\ script = "scan"
    /\ pc = "connect"
    /\ arg = [ok |-> TRUE, tenths |-> 0]
    /\ dev = [a \in {} |-> 0]
    /\ InitCommon

\* lines 832-839: connect, or report the failure and return
ScanConnect ==
    /\ script = "scan" /\ pc = "connect"
    /\ \E ok \in BOOLEAN :
        /\ connectOk' = ok
        /\ session' = IF ok THEN "up" ELSE "closed"
        /\ pc' = IF ok THEN "bulk" ELSE "done"
        /\ idx' = IF ok THEN 1 ELSE idx
        /\ stdout' = Append(stdout, IF ok THEN "Connected! Scanning registers..."
                                          ELSE "Connection failed")
        /\ exitCode' = IF ok THEN exitCode ELSE 0
    /\ UNCHANGED <<script, arg, target, dev, closeCalls, requests, failed,
                   faults, result, readOutcome, writeOutcome, all_values,
                   report, combined, ctrlWrites>>

\* one read of the scan with outcome o: the call is issued whatever the
\* session's state, a good reply is stored, an error response or a raised
\* exception is skipped
ScanRead(o, start, count) ==
    /\ o # "ok" => faults < MaxFaults
    /\ requests' = Append(requests, ReadReq(start, count))
    /\ all_values' = ValuesAfter(o, all_values, start, count)
    /\ failed' = IF o = "ok" THEN failed ELSE failed \cup {Len(requests) + 1}
    /\ faults' = IF o = "ok" THEN faults ELSE faults + 1
    /\ session' = SessionAfter(o)

\* a loop that asks again for what it did not get
AdvanceRetry(o, i) == IF o = "ok" THEN i + 1 ELSE i

\* lines 844 and 856: the for loops go to the next item whatever the outcome
Advance(o, i) == i + 1

\* lines 844-852: the bulk reads
BulkRead ==
    /\ script = "scan" /\ pc = "bulk"
    /\ \E o \in Outcomes :
        /\ ScanRead(o, BulkBlocks[idx].start, BulkBlocks[idx].count)
        /\ IF Advance(o, idx) <= Len(BulkBlocks)
           THEN pc' = pc /\ idx' = Advance(o, idx)
           ELSE pc' = "param" /\ idx' = 1
    /\ UNCHANGED <<script, arg, target, dev, connectOk, closeCalls, result,
                   readOutcome, writeOutcome, stdout, report, combined,
                   exitCode, ctrlWrites>>

\* lines 855-862: the parameter registers, one by one
ParamRead ==
    /\ script = "scan" /\ pc = "param"
    /\ \E o \in Outcomes :
        /\ ScanRead(o, param_addrs[idx], 1)
        /\ IF Advance(o, idx) <= Len(param_addrs)
           THEN pc' = pc /\ idx' = Advance(o, idx)
           ELSE pc' = "report" /\ idx' = 0
    /\ UNCHANGED <<script, arg, target, dev, connectOk, closeCalls, result,
                   readOutcome, writeOutcome, stdout, report, combined,
                   exitCode, ctrlWrites>>

\* lines 864-906: the report
Report ==
    /\ script = "scan" /\ pc = "report"
    /\ report' = ReportLines(all_values)
    /\ combined' = CombinedLines(all_values)
    /\ pc' = "close"
    /\ UNCHANGED <<script, idx, arg, target, dev, session, connectOk,
                   closeCalls, requests, failed, faults, result, readOutcome,
                   writeOutcome, all_values, stdout, exitCode, ctrlWrites>>

\* line 908: client.close(), then scan_registers returns
ScanClose ==
    /\ script = "scan" /\ pc = "close"
    /\ closeCalls' = closeCalls + 1
    /\ session' = "closed"
    /\ pc' = "done"
    /\ exitCode' = 0
    /\ UNCHANGED <<script, idx, arg, target, dev, connectOk, requests, failed,
                   faults, result, readOutcome, writeOutcome, all_values,
                   stdout, report, combined, ctrlWrites>>

NextScan ==
    \/ ScanConnect
    \/ BulkRead
    \/ ParamRead
    \/ Report
    \/ ScanClose

SpecScan == InitScan /\ [][NextScan]_vars

(***************************************************************************)
(* The report of scan_registers.py as a function of the result set: the    *)
(* runs start where the reads are over, with the registers' values drawn   *)
(* from samples.                                                           *)
(***************************************************************************)
\* lines 844-862: the requests of a complete scan
ScanRequests ==
    [i \in 1..(Len(BulkBlocks) + Len(param_addrs)) |->
        IF i <= Len(BulkBlocks)
        THEN ReadReq(BulkBlocks[i].start, BulkBlocks[i].count)
        ELSE ReadReq(param_addrs[i - Len(BulkBlocks)], 1)]

\* which reads failed: none, either or both bulk blocks, the first or the
\* last parameter register, every parameter register, every read
FailedSamples == { {}, {1}, {2}, {1, 2}, {3}, {93}, 3..93, 1..93 }

\* values of the high and of the low registers of the eight pairs
HighSamples == {0, 2, 99, 32767, 32768, 65535}
LowSamples == {0, 50, 99, 100, 32768, 65535}

\* values of every other register
ValueSamples == {0, 1, 30, 127, 255, 300, 7708, 32767, 32768, 65526, 65531, 65535}

\* the runs: every high and low word with one value elsewhere, every value
\* elsewhere with one high and low word
ImageSamples ==
    {<<h, l, 30>> : h \in HighSamples, l \in LowSamples}
        \cup {<<2, 50, u>> : u \in ValueSamples}

\* the registers of a run: h in the high and l in the low register of each
\* pair, 32767 at address 24, u elsewhere
Image(h, l, u) ==
    [a \in 0..290 |->
        IF \E i \in 1..Len(pairs) : pairs[i][1] = a THEN h
        ELSE IF \E i \in 1..Len(pairs) : pairs[i][2] = a THEN l
        ELSE IF a = 24 THEN 32767
        ELSE u]

\* lines 848-850: every register of a reply is stored and none is asked for
\* twice, so a reply to the first block that is extra registers longer than
\* asked for leaves the addresses after 22 in all_values, and a reply to the
\* second block of only got2 registers leaves the addresses from 100 + got2
\* out of it
InitReport ==
    /\ script = "scan"
    /\ pc = "report"
    /\ idx = 0
    /\ arg = [ok |-> TRUE, tenths |-> 0]
    /\ target = 0
    /\ session = "up"
    /\ connectOk = TRUE
    /\ closeCalls = 0
    /\ requests = ScanRequests
    /\ failed \in FailedSamples
    /\ faults = Cardinality(failed)
    /\ result = 0
    /\ readOutcome = "none"
    /\ writeOutcome = "none"
    /\ \E s \in ImageSamples, extra \in {0, 3}, got2 \in {100, 53} :
        LET image == Image(s[1], s[2], s[3])
            got == UNION { Range(requests[i].address,
                                 IF i = 1 THEN requests[i].count + extra
                                 ELSE IF i = 2 THEN got2
                                 ELSE requests[i].count) :
                             i \in (1..Len(requests)) \ failed }
        IN  /\ dev = [a \in DeviceAddrs |-> image[a]]
            /\ all_values = [a \in got |-> image[a]]
    /\ stdout = <<"Connected! Scanning registers...">>
    /\ report = <<>>
    /\ combined = <<>>
    /\ exitCode = -1
    /\ ctrlWrites = 0

NextReport ==
    \/ Report
    \/ ScanClose

SpecReport == InitReport /\ [][NextReport]_vars

(***************************************************************************)
(* test_write.py                                                           *)
(***************************************************************************)
\* lines 8-12: the addresses of regs
regs == <<0, 1, 2, 14, 15, 16, 100, 101, 199>>

\* the last write sent to the compressor frequency, a status register
TurnOnStatus == << <<16, 1>>, <<1, 3>>, <<100, 1>> >>

\* lines 24, 29, 34: the writes, as <<address, value>>
TurnOn == << <<16, 1>>, <<1, 3>>, <<0, 1>> >>

InitTestWrite ==
    /\ script = "test_write"
    /\ pc = "connect"
    /\ arg = [ok |-> TRUE, tenths |-> 0]
    /\ dev = [a \in {} |-> 0]
    /\ InitCommon

\* lines 5-7: client.connect(); no else branch
TwConnect ==
    /\ script = "test_write" /\ pc = "connect"
    /\ \E ok \in BOOLEAN :
        /\ connectOk' = ok
        /\ session' = IF ok THEN "up" ELSE "closed"
        /\ pc' = IF ok THEN "before" ELSE "done"
        /\ idx' = IF ok THEN 1 ELSE idx
        /\ stdout' = IF ok THEN Append(stdout, "=== Current State ===") ELSE stdout
        /\ exitCode' = IF ok THEN exitCode ELSE 0
    /\ UNCHANGED <<script, arg, target, dev, closeCalls, requests, failed,
                   faults, result, readOutcome, writeOutcome, all_values,
                   report, combined, ctrlWrites>>

\* one read of regs[idx] with outcome o; nothing catches an exception
TwRead(o) ==
    /\ o # "ok" => faults < MaxFaults
    /\ requests' = Append(requests, ReadReq(regs[idx], 1))
    /\ failed' = IF o = "ok" THEN failed ELSE failed \cup {Len(requests) + 1}
    /\ faults' = IF o = "ok" THEN faults ELSE faults + 1
    /\ session' = SessionAfter(o)
    /\ exitCode' = ExitAfter(o)

\* lines 13-18: the registers before the writes; an error response is
\* printed as ERROR
TwReadBefore ==
    /\ script = "test_write" /\ pc = "before"
    /\ \E o \in Outcomes :
        /\ TwRead(o)
        /\ report' = IF Raises(o) THEN report
                     ELSE Append(report, [addr |-> regs[idx], error |-> o # "ok",
                                          val |-> IF o = "ok" THEN Reg(regs[idx]) ELSE 0])
        /\ IF Raises(o) THEN pc' = "done" /\ idx' = idx /\ stdout' = stdout
           ELSE IF idx < Len(regs) THEN pc' = pc /\ idx' = idx + 1 /\ stdout' = stdout
           ELSE /\ pc' = "turn_on"
                /\ idx' = 1
                /\ stdout' = Append(stdout, "=== Turning ON ===")
    /\ UNCHANGED <<script, arg, target, dev, connectOk, closeCalls, result,
                   readOutcome, writeOutcome, all_values, combined, ctrlWrites>>

\* lines 23-36: the three writes; the reply is printed, not checked
TwWrite ==
    /\ script = "test_write" /\ pc = "turn_on"
    /\ \E o \in Outcomes :
        /\ o # "ok" => faults < MaxFaults
        /\ requests' = Append(requests, WriteReq(TurnOn[idx][1], TurnOn[idx][2]))
        /\ failed' = IF o = "ok" THEN failed ELSE failed \cup {Len(requests) + 1}
        /\ faults' = IF o = "ok" THEN faults ELSE faults + 1
        /\ writeOutcome' = o
        /\ dev' = IF o = "ok" THEN Stored(TurnOn[idx][1], TurnOn[idx][2]) ELSE dev
        /\ session' = SessionAfter(o)
        /\ exitCode' = ExitAfter(o)
        /\ IF Raises(o) THEN pc' = "done" /\ idx' = idx /\ stdout' = stdout
           ELSE IF idx < Len(TurnOn) THEN pc' = pc /\ idx' = idx + 1 /\ stdout' = stdout
           ELSE /\ pc' = "after"
                /\ idx' = 1
                /\ stdout' = Append(stdout, "=== After Write ===")
    /\ UNCHANGED <<script, arg, target, connectOk, closeCalls, result,
                   readOutcome, all_values, report, combined, ctrlWrites>>

\* lines 39-42: the registers after the writes; an error response prints
\* nothing
TwReadAfter ==
    /\ script = "test_write" /\ pc = "after"
    /\ \E o \in Outcomes :
        /\ TwRead(o)
        /\ report' = IF o = "ok"
                     THEN Append(report, [addr |-> regs[idx], error |-> FALSE,
                                          val |-> Reg(regs[idx])])
                     ELSE report
        /\ IF Raises(o) THEN pc' = "done" /\ idx' = idx
           ELSE IF idx < Len(regs) THEN pc' = pc /\ idx' = idx + 1
           ELSE pc' = "close" /\ idx' = 0
    /\ UNCHANGED <<script, arg, target, dev, connectOk, closeCalls, result,
                   readOutcome, writeOutcome, all_values, stdout, combined,
                   ctrlWrites>>

\* line 44: client.close(), then the script ends
TwClose ==
    /\ script = "test_write" /\ pc = "close"
    /\ closeCalls' = closeCalls + 1
    /\ session' = "closed"
    /\ pc' = "done"
    /\ exitCode' = 0
    /\ UNCHANGED <<script, idx, arg, target, dev, connectOk, requests, failed,
                   faults, result, readOutcome, writeOutcome, all_values,
                   stdout, report, combined, ctrlWrites>>

NextTestWrite ==
    \/ TwConnect
    \/ TwReadBefore
    \/ TwWrite
    \/ TwReadAfter
    \/ TwClose

(***************************************************************************)
(* test_modbus.py                                                          *)
(***************************************************************************)
\* line 6: for dev_id in [1, 2, 3]
dev_ids == <<1, 2, 3>>

InitTestModbus ==
    /\ script = "test_modbus"
    /\ pc = "connect"
    /\ arg = [ok |-> TRUE, tenths |-> 0]
    /\ dev = [a \in {} |-> 0]
    /\ InitCommon

\* lines 4-5 and 13-14: connect, or report the failure
TmConnect ==
    /\ script = "test_modbus" /\ pc = "connect"
    /\ \E ok \in BOOLEAN :
        /\ connectOk' = ok
        /\ session' = IF ok THEN "up" ELSE "closed"
        /\ pc' = IF ok THEN "probe" ELSE "done"
        /\ idx' = IF ok THEN 1 ELSE idx
        /\ stdout' = Append(stdout, IF ok THEN "Connected!" ELSE "Connection failed")
        /\ exitCode' = IF ok THEN exitCode ELSE 0
    /\ UNCHANGED <<script, arg, target, dev, closeCalls, requests, failed,
                   faults, result, readOutcome, writeOutcome, all_values,
                   report, combined, ctrlWrites>>

\* lines 6-11: one read of register 110 from each unit; an error response
\* carries no register, so printing it raises, and every exception is caught
\* and printed as "no response"
TmProbe ==
    /\ script = "test_modbus" /\ pc = "probe"
    /\ \E o \in Outcomes :
        /\ requests' = Append(requests, [ReadReq(110, 1) EXCEPT !.unit = dev_ids[idx]])
        /\ failed' = IF o = "ok" THEN failed ELSE failed \cup {Len(requests) + 1}
        /\ faults' = IF o = "ok" THEN faults ELSE faults + 1
        /\ session' = SessionAfter(o)
        /\ report' = Append(report, [unit |-> dev_ids[idx], response |-> o = "ok",
                                     val |-> IF o = "ok" THEN Reg(110) ELSE 0])
    /\ IF idx < Len(dev_ids)
       THEN pc' = pc /\ idx' = idx + 1
       ELSE pc' = "close" /\ idx' = 0
    /\ UNCHANGED <<script, arg, target, dev, connectOk, closeCalls, result,
                   readOutcome, writeOutcome, all_values, stdout, combined,
                   exitCode, ctrlWrites>>

\* line 12: client.close(), then the script ends
TmClose ==
    /\ script = "test_modbus" /\ pc = "close"
    /\ closeCalls' = closeCalls + 1
    /\ session' = "closed"
    /\ pc' = "done"
    /\ exitCode' = 0
    /\ UNCHANGED <<script, idx, arg, target, dev, connectOk, requests, failed,
                   faults, result, readOutcome, writeOutcome, all_values,
                   stdout, report, combined, ctrlWrites>>

NextTestModbus ==
    \/ TmConnect
    \/ TmProbe
    \/ TmClose

(***************************************************************************)
(* Every script of the repository.                                         *)
(***************************************************************************)
InitAll ==
    \/ InitSetTarget
    \/ InitScan
    \/ InitTestWrite
    \/ InitTestModbus

NextAll ==
    \/ NextSetTarget
    \/ NextScan
    \/ NextTestWrite
    \/ NextTestModbus

SpecAll == InitAll /\ [][NextAll]_vars

(***************************************************************************)
(* Properties of set_target.py, checked under SpecSetTarget.               *)
(***************************************************************************)
HighByte(x) == (x \div 256) % 256
LowByte(x) == x % 256

\* C1: for a target in 0..255, the value written to register 2 has the high
\* byte of the value that was read and the target as its low byte.
C1_SiblingBytePreserved ==
    \A i \in Writes :
        target \in 0..255 =>
            /\ HighByte(requests[i].value) = HighByte(result)
            /\ LowByte(requests[i].value) = target

C1_Witness ==
    /\ Writes # {}
    /\ target = 85
    /\ result = 170 * 256 + 255

\* C2: a target outside 0..255 is rejected before any write: no write_register
\* request is issued for it.
C2_OutOfRangeRejected == target \notin 0..255 => Writes = {}

\* C3: when the connection is not established or the read of register 2
\* fails (error response, exception, session lost), no write is issued.
C3_NoWriteAfterFailedRead ==
    (~connectOk \/ readOutcome \in {"error", "exception", "lost"}) => Writes = {}

C3_Witness ==
    /\ pc = "done"
    /\ connectOk
    /\ readOutcome = "error"
    /\ Reads # {}
    /\ Writes = {}

\* C4: the write of a Zone1 target in 0..255 leaves the Zone2 byte the device
\* holds at that moment as it is, also when the wired controller changed it
\* after the script's read.
C4_Zone2NotReset ==
    [][(pc = "write" /\ target \in 0..255 /\ writeOutcome' = "ok")
           => HighByte(Reg(2)') = HighByte(Reg(2))]_vars

\* C5: once connect() has succeeded, the script ends with close() called
\* exactly once, on every exit path.
C5_ClosedOnEveryExit == (pc = "done" /\ connectOk) => closeCalls = 1

\* C9: a run in which the connection fails, the read fails or the write is not
\* acknowledged ends in an outcome (exit status, output) that differs from
\* the one of an acknowledged write, which is exit status 0 and no output.
C9_FailureReported ==
    (pc = "done" /\ writeOutcome # "ok") => (exitCode # 0 \/ stdout # <<>>)

(***************************************************************************)
(* Properties of scan_registers.py, checked under SpecScan.                *)
(***************************************************************************)
\* the requests of a complete scan: 0..22, 100..199, then 200..290 singly
ExpectedRequests ==
    [i \in 1..93 |->
        IF i = 1 THEN ReadReq(0, 23)
        ELSE IF i = 2 THEN ReadReq(100, 100)
        ELSE ReadReq(197 + i, 1)]

\* the addresses of the reads that succeeded
SucceededAddrs ==
    UNION { Range(requests[i].address, requests[i].count) :
                i \in (1..Len(requests)) \ failed }

\* C6: every read request with count > 1 covers a range disjoint from
\* 200..290; an address in 200..290 is requested only with count 1.
C6_NoBulkAcrossParams ==
    \A i \in 1..Len(requests) :
        LET r == requests[i] IN
        /\ r.op = "read"
        /\ r.count > 1 => Range(r.address, r.count) \cap (200..290) = {}
        /\ Range(r.address, r.count) \cap (200..290) # {} => r.count = 1

C6_Witness ==
    /\ pc = "done"
    /\ Len(requests) = 93
    /\ \E i \in 1..Len(requests) : requests[i].count > 1
    /\ \E i \in 1..Len(requests) : requests[i].address = 290

\* C7: after a successful connect, whatever reads fail, the scan goes on after
\* each failed read, issues every read request, prints the report and ends
\* normally; its result set
\* holds exactly the addresses of the reads that succeeded, each with the
\* value the device returned.
C7_BestEffortPartialResult ==
    /\ (pc \in {"bulk", "param", "report"} /\ Len(requests) \in failed) =>
          ENABLED NextScan
    /\ (connectOk /\ pc \in {"report", "close", "done"}) =>
          /\ requests = ExpectedRequests
          /\ DOMAIN all_values = SucceededAddrs
          /\ \A a \in DOMAIN all_values : all_values[a] = Reg(a)
    /\ (connectOk /\ pc \in {"close", "done"}) =>
          {report[i].addr : i \in 1..Len(report)} = SucceededAddrs
    /\ (connectOk /\ pc = "done") => exitCode = 0

C7_Witness ==
    /\ pc = "done"
    /\ connectOk
    /\ failed # {}
    /\ Len(requests) = 93
    /\ Len(report) > 0

\* C8: when connect() fails the scan reports it and issues no read; once the
\* session is lost during a scan, no further read request is issued.
C8_NoScanWithoutConnection ==
    /\ []((pc = "done" /\ ~connectOk) =>
             (requests = <<>> /\ stdout = <<"Connection failed">>))
    /\ [][session = "lost" => requests' = requests]_vars

C20_NoRetries ==
    script = "scan" =>
        /\ Len(requests) <= Len(ExpectedRequests)
        /\ \A i \in 1..Len(requests) : requests[i] = ExpectedRequests[i]
        /\ \A i \in 2..Len(requests) :
              requests[i].address
                  > requests[i - 1].address + requests[i - 1].count - 1
        /\ pc \in {"report", "close", "done"} /\ connectOk
              => Len(requests) = Len(ExpectedRequests)

C20_Witness ==
    /\ pc = "done"
    /\ \E i \in failed :
          /\ i < Len(requests)
          /\ requests[i + 1] = ExpectedRequests[i + 1]
          /\ requests[i + 1] # requests[i]
    /\ Len(requests) = 93

\* C21: a scan issues no write request, whatever the outcomes of its reads,
\* and every register of the device holds after the scan the value it held
\* before it.
C21_ScanReadOnly ==
    script = "scan" =>
        /\ Writes = {}
        /\ \A i \in 1..Len(requests) : requests[i].op = "read"
        /\ \A a \in DeviceAddrs : Reg(a) = DeviceImage[a]

C21_Witness ==
    /\ script = "scan"
    /\ pc = "done"
    /\ closeCalls = 1
    /\ Reads = 1..93
    /\ \E i \in failed : requests[i].address = 100
    /\ Reg(2) = DeviceImage[2]

\* C22: with replies of exactly the count asked for, every address of the
\* result set has a catalogue entry, so the report has no "(unknown)" line
\* and a line for every register read, whatever its value.
C22_AllCatalogued ==
    script = "scan" =>
        /\ DOMAIN all_values \subseteq REGISTERS
        /\ DOMAIN all_values \subseteq (0..22) \cup (100..199) \cup (200..290)
        /\ \A i \in 1..Len(report) : report[i].known
        /\ pc \in {"close", "done"} =>
              /\ Len(report) = Cardinality(DOMAIN all_values)
              /\ \A a \in DOMAIN all_values :
                    \E i \in 1..Len(report) :
                        report[i].addr = a /\ report[i].val = all_values[a]

C22_Witness ==
    /\ script = "scan"
    /\ pc = "close"
    /\ failed = {}
    /\ Len(report) = 214
    /\ \E i \in 1..Len(report) : report[i].val = 65535
    /\ \E i \in 1..Len(report) : report[i].val = 0
    /\ \E i \in 1..Len(report) : report[i].val = 255

\* C23: with replies of exactly the count asked for, a scan prints all eight
\* combined totals when the read of 100..199 succeeded and none when it
\* failed, whatever happened to the read of 0..22 and to the reads of
\* 200..290.
C23_TotalsAllOrNone ==
    script = "scan" =>
        /\ Len(combined) \in {0, 8}
        /\ (connectOk /\ pc \in {"close", "done"}) =>
              (Len(combined) = 8 <=> 2 \notin failed)

C23_Witness ==
    /\ script = "scan"
    /\ pc = "done"
    /\ failed = {2}
    /\ combined = <<>>
    /\ Len(report) = 114

(***************************************************************************)
(* Properties of the report, checked under SpecReport.                     *)
(***************************************************************************)
\* the hundredths kwh * 100 + cents as a high and a low 16-bit word, without
\* an intermediate value of 2^31 or more
ToWords(total) ==
    LET a == total.kwh \div 65536
        r == (total.kwh % 65536) * 100 + total.cents
    IN  <<100 * a + r \div 65536, r % 65536>>

PairsPresent ==
    {i \in 1..Len(pairs) :
        pairs[i][1] \in DOMAIN all_values /\ pairs[i][2] \in DOMAIN all_values}

\* C11: a combined total is reported for a pair if and only if both of its
\* registers are in the result set, and the total in hundredths of a kWh is
\* high * 65536 + low.
C11_CombinedTotals ==
    pc \in {"close", "done"} =>
        /\ Len(combined) = Cardinality(PairsPresent)
        /\ {<<combined[i].hi, combined[i].lo>> : i \in 1..Len(combined)}
              = {pairs[i] : i \in PairsPresent}
        /\ \A i \in 1..Len(combined) :
              /\ combined[i].total.cents \in 0..99
              /\ ToWords(combined[i].total)
                    = <<all_values[combined[i].hi], all_values[combined[i].lo]>>

C11_Witness ==
    /\ pc = "close"
    /\ 152 \in DOMAIN all_values /\ 153 \notin DOMAIN all_values
    /\ 143 \in DOMAIN all_values /\ 144 \in DOMAIN all_values
    /\ all_values[143] = 65535 /\ all_values[144] = 99
    /\ Len(combined) = 2

\* C12: a pair with high = 2 and low = 50 is reported as 1311.22 kWh.
C12_CombineExample ==
    \A i \in 1..Len(combined) :
        (all_values[combined[i].hi] = 2 /\ all_values[combined[i].lo] = 50)
            => combined[i].total = [kwh |-> 1311, cents |-> 22]

C12_Witness ==
    /\ pc = "close"
    /\ \E i \in 1..Len(combined) :
          all_values[combined[i].hi] = 2 /\ all_values[combined[i].lo] = 50

\* C12 as stated: the pair with high = 2 and low = 50 gives 1311.0
C12_AsStated ==
    \A i \in 1..Len(combined) :
        (all_values[combined[i].hi] = 2 /\ all_values[combined[i].lo] = 50)
            => combined[i].total = [kwh |-> 1311, cents |-> 0]

LinesOf(a) == {i \in 1..Len(report) : report[i].addr = a}

\* C13: an address read without a catalogue entry has one line, marked
\* unknown, with its plain raw value, unless the value is 0, 0x7FFF, 0x7F,
\* 0xFFFF or 255, and then it has no line; a catalogued address always has
\* its line.
C13_UnknownReported ==
    pc \in {"close", "done"} =>
        \A a \in DOMAIN all_values :
            IF a \in REGISTERS
            THEN \E i \in LinesOf(a) : report[i].known
            ELSE IF all_values[a] \in {0, 32767, 127, 65535, 255}
            THEN LinesOf(a) = {}
            ELSE /\ Cardinality(LinesOf(a)) = 1
                 /\ \A i \in LinesOf(a) :
                       /\ ~report[i].known
                       /\ report[i].val = all_values[a]
                       /\ report[i].formatted = Plain(all_values[a])

C13_Witness ==
    /\ pc = "close"
    /\ {23, 24} \subseteq DOMAIN all_values
    /\ all_values[23] = 7708
    /\ LinesOf(23) # {}
    /\ LinesOf(24) = {}
    /\ 0 \in DOMAIN all_values /\ all_values[0] = 7708 /\ LinesOf(0) # {}

\* C14: at the signed-temperature addresses the value shown for raw is raw
\* below 32768 and raw - 65536 from 32768 on (65531 shows as -5, 65526 as
\* -10, 0 as 0).
C14_TwosComplementDecoded ==
    \A i \in 1..Len(report) :
        report[i].addr \in SignedTemps =>
            /\ report[i].formatted.div = 1
            /\ report[i].formatted.whole =
                  IF report[i].val < 32768 THEN report[i].val
                                            ELSE report[i].val - 65536

\* C15: a raw 65535 at a register that uses the 0xFFFF sentinel, and a raw
\* 255 at a register that uses the 0xFF sentinel, is shown as an explicit
\* "unavailable", which is not the rendering of raw 0 nor of any number.
C15_SentinelUnavailable ==
    \A i \in 1..Len(report) :
        (\/ report[i].addr \in SentinelFFFF /\ report[i].val = 65535
         \/ report[i].addr \in SentinelFF /\ report[i].val = 255)
            => /\ report[i].formatted.kind = "unavailable"
               /\ report[i].formatted # format_value(report[i].addr, 0)
               /\ \A v \in ValueSamples \ {report[i].val} :
                     report[i].formatted # format_value(report[i].addr, v)

\* C17: every register the catalogue marks as tenths is shown as raw / 10,
\* every register it marks x0.01 as raw / 100, and none of them as the plain
\* raw value.
C17_ScalingByClass ==
    \A i \in 1..Len(report) :
        /\ report[i].addr \in ScaleTenth =>
              /\ report[i].formatted.kind = "scaled"
              /\ report[i].formatted.div = 10
              /\ report[i].formatted.whole * 10 + report[i].formatted.frac
                    = report[i].val
        /\ report[i].addr \in ScaleHundredth =>
              /\ report[i].formatted.kind = "scaled"
              /\ report[i].formatted.div = 100
              /\ report[i].formatted.whole * 100 + report[i].formatted.frac
                    = report[i].val

\* C19: the requests of a set_target run are at most one read of address 2
\* (count 1) followed by at most one write to address 2, the write never
\* comes before the read, the Zone2 byte written is the one that was read,
\* and no other address is read or written.
C19_TwoStepProtocol ==
    script = "set_target" =>
        /\ Len(requests) <= 2
        /\ \A i \in 1..Len(requests) : requests[i].address = 2
        /\ \A i \in Reads : i = 1 /\ requests[i].count = 1
        /\ \A i \in Writes :
              /\ i = 2
              /\ readOutcome = "ok"
              /\ HighByte(requests[i].value) = HighByte(result)

(***************************************************************************)
(* Properties of the packing of register 2, checked under SpecCodec.       *)
(***************************************************************************)
\* C16: for every zone1 and zone2 of 0..255, raw = zone1 | (zone2 << 8)
\* decodes to zone1 = raw & 0xFF and zone2 = (raw >> 8) & 0xFF, and
\* (zone2 << 8) | zone1 is raw again.
C16_PackedZoneRoundTrip ==
    LET zone1 == LowByte(result)
        zone2 == HighByte(result)
    IN  /\ PyOr(zone1, Shl(zone2, 8)) = result
        /\ AndNat(result, 255) = zone1
        /\ Zone2Of(result) = zone2
        /\ target = zone1
        /\ \A i \in Writes : requests[i].value = result

C16_Witness ==
    /\ pc = "close"
    /\ writeOutcome = "ok"
    /\ target = 35
    /\ HighByte(result) = 200
    /\ Writes # {}
    /\ Reg(2) = 200 * 256 + 35

(***************************************************************************)
(* Properties of every script, checked under SpecAll.                      *)
(***************************************************************************)
\* C18: every write request of every script is to an address of 0..22 or of
\* 209..290, never to one of 23..208.
C18_WritesToWritable ==
    \A i \in Writes :
        /\ requests[i].address \in (0..22) \cup (209..290)
        /\ requests[i].address \notin 23..208

C18_Witness ==
    /\ script = "test_write"
    /\ pc = "done"
    /\ closeCalls = 1
    /\ {requests[i].address : i \in Writes} = {16, 1, 0}
    /\ Len(requests) = 21

====
